---- MODULE Spec2Model ----
(***************************************************************************)
(* SdpSimulcast (src/modules/sdp/SdpSimulcast.ts): munging of a local      *)
(* session description to enable simulcast, with a per-mid cache of the    *)
(* generated SSRCs and of the number of layers.                            *)
(*                                                                         *)
(* A parsed description is a sequence of media sections.  A section has    *)
(* type, mid, direction, msid, ssrcs (the a=ssrc lines, in order) and      *)
(* ssrcGroups (the a=ssrc-group lines, in order).  The parser leaves a     *)
(* field out when the text has no such line, so the empty sequence stands  *)
(* for an absent ssrcs / ssrcGroups field.                                 *)
(*                                                                         *)
(* JavaScript values: SSRC numbers are naturals; undefined and NaN are the *)
(* two negative numbers below.  The text of a group's "ssrcs" field is the *)
(* sequence of its space-separated tokens; a token is the decimal text of  *)
(* a natural, or the text "undefined" / "NaN" that a template string or    *)
(* join() writes for those values.                                         *)
(***************************************************************************)
EXTENDS Integers, Sequences, FiniteSets, TLC

VARIABLES _ssrcCache, _layersCache, call, first

vars == <<_ssrcCache, _layersCache, call, first>>

-----------------------------------------------------------------------------
(* Bounds of the model. *)

\* 0xffffffff scaled down: _generateSsrc draws from 0 .. max - 1.
max == 3

\* Largest number of distinct SSRCs in an input section.
MaxSsrcs == 3

-----------------------------------------------------------------------------
(* JavaScript values and conversions. *)

Undefined == -1
NaN == -2

\* Text tokens "undefined" and "NaN".
StrUndefined == -1
StrNaN == -2

\* An absent string value (a=ssrc attribute value, msid).
NoValue == "undefined"

\* String(x) as used by template strings and Array.join.
ToStr(x) == IF x >= 0 THEN x ELSE IF x = Undefined THEN StrUndefined ELSE StrNaN

\* Number(x) of a token or of a parsed id.
Number(x) == IF x >= 0 THEN x ELSE NaN

\* a === b for numbers: NaN and undefined never equal a number, NaN never
\* equals NaN.
StrictEq(a, b) == a >= 0 /\ b >= 0 /\ a = b

\* Truthiness of a string value.
TruthyStr(v) == v # NoValue /\ v # ""

\* Truthiness of a number or undefined.
TruthyNum(x) == x # Undefined /\ x # NaN /\ x # 0

SIM == "SIM"
FID == "FID"
VIDEO == "video"
AUDIO == "audio"
SENDRECV == "sendrecv"
SENDONLY == "sendonly"
RECVONLY == "recvonly"
INACTIVE == "inactive"

\* join(' ') of an array of numbers, as a sequence of tokens.
Join(arr) == [i \in 1..Len(arr) |-> ToStr(arr[i])]

\* split(' ').map(Number)
SplitNumbers(text) == [i \in 1..Len(text) |-> Number(text[i])]

\* Least element of a non-empty set of indices, 0 for the empty set: the
\* position Array.find stops at.
FirstIndex(S) == IF S = {} THEN 0 ELSE CHOOSE i \in S : \A j \in S : i <= j

\* ssrcGroups?.find(group => group.semantics === semantics), as an index.
FindGroup(ssrcGroups, semantics) ==
    FirstIndex({i \in 1..Len(ssrcGroups) : ssrcGroups[i].semantics = semantics})

-----------------------------------------------------------------------------
(* Collaborators. *)

\* Layer policy: only the length of the returned list is used.  The spec
\* gives 3 layers for height 720, 2 for 480 and 1 for 320.
getEffectiveSimulcastLayers(height) ==
    IF height >= 720 THEN <<1, 2, 3>>
    ELSE IF height >= 480 THEN <<1, 2>>
    ELSE <<1>>

\* Variant: a lower default.
DefaultHeightLow == 2 * 240

\* Height assumed when the resolution of a track is unknown.
DefaultHeight == 720

-----------------------------------------------------------------------------
(* SdpSimulcast *)

\* Outcomes of _generateSsrc(): Math.floor(Math.random() * max), with
\* Math.random() in [0, 1).
_generateSsrc == 0..(max - 1)

\* mLine.ssrcs?.find(id === ssrc && attribute === attributeName)?.value
_getSsrcAttribute(mLine, ssrc, attributeName) ==
    LET i == FirstIndex({k \in 1..Len(mLine.ssrcs) :
                            /\ StrictEq(Number(mLine.ssrcs[k].id), ssrc)
                            /\ mLine.ssrcs[k].attribute = attributeName})
    IN  IF i = 0 THEN NoValue ELSE mLine.ssrcs[i].value

\* null result of _parseSimLayers
Null == <<>>

_parseSimLayers(mLine) ==
    LET g == FindGroup(mLine.ssrcGroups, SIM)
    IN  IF g # 0 THEN SplitNumbers(mLine.ssrcGroups[g].ssrcs)
        ELSE IF Len(mLine.ssrcs) > 0 THEN <<Number(mLine.ssrcs[1].id)>>
        ELSE Null

\* The a=ssrc lines pushed for the cached SSRCs: msid then cname for each.
CachedLines(cachedSsrcs, newMsid, newCname) ==
    [i \in 1..(2 * Len(cachedSsrcs)) |->
        IF i % 2 = 1
        THEN [attribute |-> "msid", id |-> cachedSsrcs[(i + 1) \div 2], value |-> newMsid]
        ELSE [attribute |-> "cname", id |-> cachedSsrcs[i \div 2], value |-> newCname]]

\* Variant: the SIM group is added for a single layer too.
FillAddsSimGroupAlways(cachedNumLayers) == cachedNumLayers >= 1

\* Whether the cache fill path adds the SIM group.
FillAddsSimGroup(cachedNumLayers) == cachedNumLayers > 1

\* Result: [threw, mLine].  A TypeError is thrown when the cached list or the
\* parsed layers are null.
_fillSsrcsFromCache(mLine, ssrcCache, layersCache) ==
    LET mid == mLine.mid
        cachedSsrcs == ssrcCache[mid]
        stored == IF mid \in DOMAIN layersCache THEN layersCache[mid] ELSE Undefined
        cachedNumLayers == IF TruthyNum(stored) THEN stored ELSE Len(cachedSsrcs)
        newSsrcs == _parseSimLayers(mLine)
        newMsid == _getSsrcAttribute(mLine, newSsrcs[1], "msid")
        newCname == _getSsrcAttribute(mLine, newSsrcs[1], "cname")
    IN  IF cachedSsrcs = Null \/ newSsrcs = Null
        THEN [threw |-> TRUE, mLine |-> mLine]
        ELSE [threw |-> FALSE,
              mLine |-> [mLine EXCEPT
                  !.ssrcs = CachedLines(cachedSsrcs, newMsid, newCname),
                  !.ssrcGroups =
                      IF FillAddsSimGroup(cachedNumLayers)
                      THEN <<[semantics |-> SIM, ssrcs |-> Join(cachedSsrcs)]>>
                      ELSE <<>>]]

\* The msid lines pushed for every existing a=ssrc line when the primary
\* SSRC has no msid attribute.
MsidLines(ssrcs, msid) ==
    [i \in 1..Len(ssrcs) |-> [attribute |-> "msid", id |-> ssrcs[i].id, value |-> msid]]

\* The a=ssrc lines pushed for the generated SSRCs: cname then msid for each.
SimLines(simSsrcs, cname, msid) ==
    [i \in 1..(2 * Len(simSsrcs)) |->
        IF i % 2 = 1
        THEN [attribute |-> "cname", id |-> simSsrcs[(i + 1) \div 2], value |-> cname]
        ELSE [attribute |-> "msid", id |-> simSsrcs[i \div 2], value |-> msid]]

\* Number of SSRCs generated for numLayers layers.
NumGenerated(numLayers) == IF numLayers > 1 THEN numLayers - 1 ELSE 0

\* Variant: the SIM group lists the generated SSRCs only.
SimGroupTextGeneratedOnly(primarySsrc, simSsrcs) == Join(simSsrcs)

\* The ssrcs text of the new SIM group: `${primarySsrc} ${simSsrcs.join(' ')}`
SimGroupText(primarySsrc, simSsrcs) == <<ToStr(primarySsrc)>> \o Join(simSsrcs)

\* rnd: the outcomes of the successive _generateSsrc() calls.
\* Result: [threw, mLine].  A TypeError is thrown when mLine.ssrcs is absent
\* (forEach / push of undefined).
_generateNewSsrcsForSimulcast(mLine, primarySsrc, numLayers, rnd) ==
    LET cname == _getSsrcAttribute(mLine, primarySsrc, "cname")
        msid0 == _getSsrcAttribute(mLine, primarySsrc, "msid")
        msid == IF TruthyStr(msid0) THEN msid0 ELSE mLine.msid
        withMsid == IF TruthyStr(msid0) THEN mLine.ssrcs
                    ELSE mLine.ssrcs \o MsidLines(mLine.ssrcs, msid)
        simSsrcs == SubSeq(rnd, 1, NumGenerated(numLayers))
    IN  IF Len(mLine.ssrcs) = 0 /\ (~TruthyStr(msid0) \/ numLayers > 1)
        THEN [threw |-> TRUE, mLine |-> mLine]
        ELSE [threw |-> FALSE,
              mLine |-> [mLine EXCEPT
                  !.ssrcs = withMsid \o SimLines(simSsrcs, cname, msid),
                  !.ssrcGroups =
                      IF numLayers > 1
                      THEN mLine.ssrcGroups
                           \o <<[semantics |-> SIM,
                                 ssrcs |-> SimGroupText(primarySsrc, simSsrcs)]>>
                      ELSE mLine.ssrcGroups]]

\* Variant: only a missing description or sdp is treated as "no text".
HasNoSdpMissingOnly(description) ==
    description.isNull \/ description.sdp.text = "undefined"

\* !description?.sdp
HasNoSdp(description) ==
    description.isNull \/ description.sdp.text = "undefined" \/ description.sdp.text = ""

\* transform.parse(description.sdp).media
Parse(sdp) == IF sdp.text = "sdp" THEN sdp.media ELSE <<>>

\* transform.write(session)
Write(media) == [text |-> "sdp", media |-> media]

\* Variant: only recvonly sections are ignored.
IsRemoteDirectionRecvOnly(media) == media.direction = RECVONLY

\* Ignore recvonly and inactive transceivers created for remote sources.
IsRemoteDirection(media) ==
    media.direction = RECVONLY \/ media.direction = INACTIVE

\* Ignore audio m-lines.
IsNotVideo(media) == media.type # VIDEO

\* new Set(media.ssrcs?.map(ssrcInfo => ssrcInfo.id))
SsrcSet(media) == {media.ssrcs[i].id : i \in 1..Len(media.ssrcs)}

\* media.ssrcGroups?.length ?? 0
NumGroups(media) == Len(media.ssrcGroups)

\* Variant: two SSRCs without any group are not skipped.
DoNotMungeCountOnly(numSsrcs, numGroups) == numSsrcs = 0 \/ numSsrcs > 2

\* Variant: a section without SSRCs is not skipped.
DoNotMungeNonEmpty(numSsrcs, numGroups) ==
    numSsrcs > 2 \/ (numSsrcs = 2 /\ numGroups = 0)

\* Do not munge if the description has no ssrcs or if simulcast is already
\* enabled.
DoNotMunge(numSsrcs, numGroups) ==
    numSsrcs = 0 \/ numSsrcs > 2 \/ (numSsrcs = 2 /\ numGroups = 0)

\* Variant: the primary SSRC is always the one of the first a=ssrc line.
PrimarySsrcFirstLine(media, numSsrcs) ==
    [threw |-> FALSE,
     primarySsrc |-> IF Len(media.ssrcs) > 0 THEN Number(media.ssrcs[1].id) ELSE NaN]

\* Result: [threw, primarySsrc].  A TypeError is thrown by find() when
\* media.ssrcGroups is absent.
PrimarySsrc(media, numSsrcs) ==
    IF numSsrcs = 1
    THEN [threw |-> FALSE,
          primarySsrc |-> IF Len(media.ssrcs) > 0 THEN Number(media.ssrcs[1].id) ELSE NaN]
    ELSE IF Len(media.ssrcGroups) = 0
    THEN [threw |-> TRUE, primarySsrc |-> Undefined]
    ELSE LET f == FindGroup(media.ssrcGroups, FID)
         IN  [threw |-> FALSE,
              primarySsrc |-> IF f # 0 THEN Number(media.ssrcGroups[f].ssrcs[1])
                              ELSE Undefined]

\* trackResolutionMap?.get(mid)
CaptureHeight(trackResolutionMap, mid) ==
    IF trackResolutionMap.supplied /\ mid \in DOMAIN trackResolutionMap.heights
    THEN trackResolutionMap.heights[mid]
    ELSE Undefined

\* Number of layers determined from the capture resolution.
NumLayers(trackResolutionMap, mid) ==
    LET captureHeight == CaptureHeight(trackResolutionMap, mid)
    IN  Len(IF TruthyNum(captureHeight)
            THEN getEffectiveSimulcastLayers(captureHeight)
            ELSE getEffectiveSimulcastLayers(DefaultHeight))

\* Variant: the cache is never consulted.
CacheHasNever(ssrcCache, mid) == FALSE

\* this._ssrcCache.has(mid)
CacheHas(ssrcCache, mid) == mid \in DOMAIN ssrcCache

\* Variant: the map is replaced by one with the new entry only.
MapSetOnly(map, key, value) == (key :> value)

\* Map.set
MapSet(map, key, value) == (key :> value) @@ map

\* One iteration of the loop over session.media.  st is the instance state
\* [ssrcCache, layersCache].  Result: the section as left by the iteration,
\* the caches, whether the iteration threw, the branch taken and the number
\* of _generateSsrc() outcomes consumed.
MungeMedia(media, st, trackResolutionMap, rnd) ==
    LET skip(why) == [media |-> media, ssrcCache |-> st.ssrcCache,
                      layersCache |-> st.layersCache, threw |-> FALSE,
                      decision |-> why, used |-> 0]
        throw(where) == [skip("threw") EXCEPT !.threw = TRUE]
        mid == media.mid
        numSsrcs == Cardinality(SsrcSet(media))
        numGroups == NumGroups(media)
        primary == PrimarySsrc(media, numSsrcs)
        numLayers == NumLayers(trackResolutionMap, mid)
    IN  IF IsRemoteDirection(media) THEN skip("direction")
        ELSE IF IsNotVideo(media) THEN skip("type")
        ELSE IF DoNotMunge(numSsrcs, numGroups) THEN skip("ssrcs")
        ELSE IF primary.threw THEN throw("find")
        ELSE IF CacheHas(st.ssrcCache, mid)
        THEN LET filled == _fillSsrcsFromCache(media, st.ssrcCache, st.layersCache)
             IN  IF filled.threw THEN throw("fill")
                 ELSE [skip("fill") EXCEPT !.media = filled.mLine]
        ELSE LET generated == _generateNewSsrcsForSimulcast(
                                  media, primary.primarySsrc, numLayers, rnd)
                 simulcastSsrcs == _parseSimLayers(generated.mLine)
             IN  IF generated.threw THEN throw("generate")
                 ELSE [media |-> generated.mLine,
                       ssrcCache |-> MapSet(st.ssrcCache, mid, simulcastSsrcs),
                       layersCache |-> MapSet(st.layersCache, mid, numLayers),
                       threw |-> FALSE,
                       decision |-> "generate",
                       used |-> NumGenerated(numLayers)]

\* The loop over session.media from section i on.  acc holds the sections
\* processed so far, the caches, the branch taken and the _generateSsrc()
\* outcomes consumed for each section, and the outcomes not yet used.
\* Variant: the first skipped section ends the loop (break for continue);
\* the sections after it stay as they are.
RECURSIVE MungeLoopStopsAtSkip(_, _, _, _)
MungeLoopStopsAtSkip(media, i, acc, trackResolutionMap) ==
    IF i > Len(media) \/ acc.threw THEN acc
    ELSE LET stopped == \E k \in 1..Len(acc.decisions) :
                           acc.decisions[k] \in {"direction", "type", "ssrcs", "stopped"}
             r == IF stopped
                  THEN [media |-> media[i], ssrcCache |-> acc.ssrcCache,
                        layersCache |-> acc.layersCache, threw |-> FALSE,
                        decision |-> "stopped", used |-> 0]
                  ELSE MungeMedia(media[i],
                                  [ssrcCache |-> acc.ssrcCache, layersCache |-> acc.layersCache],
                                  trackResolutionMap, acc.rnd)
         IN  MungeLoopStopsAtSkip(media, i + 1,
                 [media |-> Append(acc.media, r.media),
                  ssrcCache |-> r.ssrcCache,
                  layersCache |-> r.layersCache,
                  threw |-> r.threw,
                  decisions |-> Append(acc.decisions, r.decision),
                  drawn |-> Append(acc.drawn, SubSeq(acc.rnd, 1, r.used)),
                  used |-> acc.used + r.used,
                  rnd |-> SubSeq(acc.rnd, r.used + 1, Len(acc.rnd))],
                 trackResolutionMap)

RECURSIVE MungeLoop(_, _, _, _)
MungeLoop(media, i, acc, trackResolutionMap) ==
    IF i > Len(media) \/ acc.threw THEN acc
    ELSE LET r == MungeMedia(media[i],
                             [ssrcCache |-> acc.ssrcCache, layersCache |-> acc.layersCache],
                             trackResolutionMap, acc.rnd)
         IN  MungeLoop(media, i + 1,
                 [media |-> Append(acc.media, r.media),
                  ssrcCache |-> r.ssrcCache,
                  layersCache |-> r.layersCache,
                  threw |-> r.threw,
                  decisions |-> Append(acc.decisions, r.decision),
                  drawn |-> Append(acc.drawn, SubSeq(acc.rnd, 1, r.used)),
                  used |-> acc.used + r.used,
                  rnd |-> SubSeq(acc.rnd, r.used + 1, Len(acc.rnd))],
                 trackResolutionMap)

MungeAll(media, ssrcCache, layersCache, trackResolutionMap, rnd) ==
    MungeLoop(media, 1,
        [media |-> <<>>, ssrcCache |-> ssrcCache, layersCache |-> layersCache,
         threw |-> FALSE, decisions |-> <<>>, drawn |-> <<>>, used |-> 0, rnd |-> rnd],
        trackResolutionMap)

\* The outcomes of the _generateSsrc() calls of one call of the handler: at
\* most two for each section.  The outcomes after the last one used are 0.
Outcomes(media) == [1..(2 * Len(media)) -> _generateSsrc]

NullDescription == [isNull |-> TRUE, type |-> NoValue, sdp |-> [text |-> "undefined", media |-> <<>>]]

NoMap == [supplied |-> FALSE, heights |-> <<>>]

\* The first generation for each mid of this call: input and output section.
FirstOf(input, r) ==
    LET gen == {i \in 1..Len(r.decisions) : r.decisions[i] = "generate"}
        mids == {input[i].mid : i \in gen}
    IN  [m \in mids |->
            LET i == CHOOSE i \in gen : input[i].mid = m /\ \A j \in gen : input[j].mid = m => i <= j
            IN  [input |-> input[i], output |-> r.media[i]]]

mungeLocalDescription(description, trackResolutionMap) ==
    IF HasNoSdp(description)
    THEN /\ call' = [made |-> TRUE, description |-> description,
                     trackResolutionMap |-> trackResolutionMap,
                     result |-> description, returnedInput |-> TRUE,
                     threw |-> FALSE, decisions |-> <<>>, drawn |-> <<>>,
                     ssrcCacheBefore |-> _ssrcCache,
                     layersCacheBefore |-> _layersCache]
         /\ UNCHANGED <<_ssrcCache, _layersCache, first>>
    ELSE LET session == Parse(description.sdp)
         IN  \E rnd \in Outcomes(session) :
                LET r == MungeAll(session, _ssrcCache, _layersCache,
                                  trackResolutionMap, rnd)
                IN  /\ \A k \in (r.used + 1)..Len(rnd) : rnd[k] = 0
                    /\ _ssrcCache' = r.ssrcCache
                    /\ _layersCache' = r.layersCache
                    /\ first' = first @@ FirstOf(session, r)
                    /\ call' = [made |-> TRUE, description |-> description,
                                trackResolutionMap |-> trackResolutionMap,
                                result |-> IF r.threw THEN NullDescription
                                           ELSE [isNull |-> FALSE,
                                                 type |-> description.type,
                                                 sdp |-> Write(r.media)],
                                returnedInput |-> FALSE,
                                threw |-> r.threw, decisions |-> r.decisions,
                                drawn |-> r.drawn,
                                ssrcCacheBefore |-> _ssrcCache,
                                layersCacheBefore |-> _layersCache]

-----------------------------------------------------------------------------
(* Inputs. *)

\* SSRC of the k-th source of an input section.
SourceId(k) == k

\* The a=ssrc lines of n sources: a cname line and, when perSsrcMsid, an msid
\* line for each.
SsrcLines(n, perSsrcMsid) ==
    LET per == IF perSsrcMsid THEN 2 ELSE 1
    IN  [i \in 1..(n * per) |->
            IF (i - 1) % per = 0
            THEN [attribute |-> "cname", id |-> SourceId((i - 1) \div per + 1), value |-> "cname0"]
            ELSE [attribute |-> "msid", id |-> SourceId((i - 1) \div per + 1), value |-> "stream0 track0"]]

FidGroup == [semantics |-> FID, ssrcs |-> <<ToStr(SourceId(1)), ToStr(SourceId(2))>>]

SimGroup(n) ==
    [semantics |-> SIM,
     ssrcs |-> [k \in 1..(IF n > 2 THEN n ELSE 2) |-> ToStr(SourceId(k))]]

\* A FID group that names the second source of the section as the primary
\* and the first one as its retransmission source.
FidGroupSecondFirst == [semantics |-> FID, ssrcs |-> <<ToStr(SourceId(2)), ToStr(SourceId(1))>>]

GroupChoices(n) ==
    {<<>>, <<FidGroup>>, <<SimGroup(n)>>}
    \cup (IF n = 2 THEN {<<FidGroupSecondFirst>>} ELSE {})

Section(type, mid, direction, n, perSsrcMsid, groups) ==
    [type |-> type, mid |-> mid, direction |-> direction,
     msid |-> "stream0 track0",
     ssrcs |-> SsrcLines(n, perSsrcMsid), ssrcGroups |-> groups]

\* The shapes of the a=ssrc and a=ssrc-group lines of a section.
Shapes ==
    UNION {{[n |-> n, perSsrcMsid |-> m, groups |-> g] :
                m \in BOOLEAN, g \in GroupChoices(n)} : n \in 0..MaxSsrcs}

\* Video sections of a local sender, in every shape.
SendSections ==
    {Section(VIDEO, "video", d, c.n, c.perSsrcMsid, c.groups) :
        d \in {SENDRECV, SENDONLY}, c \in Shapes}

\* Sections of remote sources and audio sections.
OtherSections ==
    {Section(VIDEO, "video", d, c.n, TRUE, c.groups) :
        d \in {RECVONLY, INACTIVE}, c \in Shapes}
    \cup {Section(AUDIO, "audio", d, c.n, TRUE, c.groups) :
        d \in {SENDRECV, RECVONLY}, c \in Shapes}

Description(type, media) ==
    [isNull |-> FALSE, type |-> type, sdp |-> [text |-> "sdp", media |-> media]]

NoTextDescriptions ==
    {NullDescription,
     [isNull |-> FALSE, type |-> "answer", sdp |-> [text |-> "undefined", media |-> <<>>]],
     [isNull |-> FALSE, type |-> "offer", sdp |-> [text |-> "", media |-> <<>>]]}

Heights == {320, 480, 720}

ResolutionMaps ==
    {NoMap, [supplied |-> TRUE, heights |-> <<>>]}
    \cup {[supplied |-> TRUE, heights |-> ("video" :> h)] : h \in Heights}

-----------------------------------------------------------------------------
(* The instance. *)

NoCall ==
    [made |-> FALSE, description |-> NullDescription, trackResolutionMap |-> NoMap,
     result |-> NullDescription, returnedInput |-> FALSE, threw |-> FALSE,
     decisions |-> <<>>, drawn |-> <<>>,
     ssrcCacheBefore |-> <<>>, layersCacheBefore |-> <<>>]

\* constructor()
Init ==
    /\ _ssrcCache = <<>>
    /\ _layersCache = <<>>
    /\ first = <<>>
    /\ call = NoCall

\* The caller takes the returned description (setLocalDescription); the
\* instance keeps its caches.  Calls on one instance are made one after the
\* other: the next one starts after the previous one has returned.
TakeResult ==
    /\ call.made
    /\ call' = NoCall
    /\ UNCHANGED <<_ssrcCache, _layersCache, first>>

\* The calls made on the instance: a local video section with any of the
\* resolution maps, a section of another kind, a description without text or
\* without media section.
Calls ==
    {[description |-> Description("answer", <<x>>), trackResolutionMap |-> m] :
        x \in SendSections, m \in ResolutionMaps}
    \cup {[description |-> Description("offer", <<x>>), trackResolutionMap |-> m] :
        x \in OtherSections,
        m \in {NoMap, [supplied |-> TRUE, heights |-> ("video" :> 480)]}}
    \cup {[description |-> d, trackResolutionMap |-> NoMap] :
        d \in NoTextDescriptions \cup {Description("answer", <<>>)}}

Munge ==
    /\ ~call.made
    /\ \E c \in Calls : mungeLocalDescription(c.description, c.trackResolutionMap)

Next ==
    \/ Munge
    \/ TakeResult

Spec == Init /\ [][Next]_vars

-----------------------------------------------------------------------------
(* Descriptions with two media sections. *)

\* The section with its SSRCs, in the a=ssrc lines and in the groups, raised
\* by a number: the SSRCs of another sender.
WithSsrcsRaised(section, by) ==
    [section EXCEPT
        !.ssrcs = [k \in 1..Len(section.ssrcs) |->
                      [section.ssrcs[k] EXCEPT !.id = section.ssrcs[k].id + by]],
        !.ssrcGroups = [g \in 1..Len(section.ssrcGroups) |->
                      [section.ssrcGroups[g] EXCEPT
                          !.ssrcs = [t \in 1..Len(section.ssrcGroups[g].ssrcs) |->
                                        section.ssrcGroups[g].ssrcs[t] + by]]]]

\* The SSRCs of the second sender lie above the ones of the first sender and
\* above the outcomes of _generateSsrc().
SecondSender(section) == WithSsrcsRaised(section, max + MaxSsrcs)

\* Unmunged sections of two local video senders: one source, or a source
\* and its retransmission pair.
SenderSections ==
    {Section(VIDEO, "video", SENDRECV, 1, TRUE, <<>>),
     Section(VIDEO, "video", SENDONLY, 2, TRUE, <<FidGroup>>),
     SecondSender(Section(VIDEO, "video2", SENDRECV, 1, FALSE, <<>>))}

\* Sections the loop skips: audio, a remote source, and a section of the
\* second sender without SSRCs.
SkippedSections ==
    {Section(AUDIO, "audio", SENDRECV, 1, TRUE, <<>>),
     Section(VIDEO, "remote", RECVONLY, 1, TRUE, <<>>),
     Section(VIDEO, "video2", SENDRECV, 0, TRUE, <<>>)}

\* Resolution maps for the two senders.
ResolutionMapsOfTwo ==
    {[supplied |-> TRUE, heights |-> ("video" :> 320 @@ "video2" :> 480)],
     [supplied |-> TRUE, heights |-> ("video" :> 480 @@ "video2" :> 320)]}

\* Calls with a description of two sections with different mids, at least
\* one of them a section of a sender.
CallsOfTwo ==
    {[description |-> Description("offer", <<x, y>>), trackResolutionMap |-> m] :
        x \in SenderSections, y \in SenderSections \cup SkippedSections,
        m \in ResolutionMapsOfTwo}
    \cup {[description |-> Description("offer", <<x, y>>), trackResolutionMap |-> m] :
        x \in SkippedSections, y \in SenderSections, m \in ResolutionMapsOfTwo}

MungeTwo ==
    /\ ~call.made
    /\ \E c \in {d \in CallsOfTwo :
                    d.description.sdp.media[1].mid # d.description.sdp.media[2].mid} :
            mungeLocalDescription(c.description, c.trackResolutionMap)

NextMulti ==
    \/ MungeTwo
    \/ TakeResult

SpecMulti == Init /\ [][NextMulti]_vars

-----------------------------------------------------------------------------
(* Observations of the call that has just returned. *)

\* Sections the loop has processed.
Processed == IF call.made THEN 1..Len(call.decisions) ELSE {}

In(i) == call.description.sdp.media[i]
Out(i) == call.result.sdp.media[i]

\* Distinct SSRCs of a section, in the order of their first a=ssrc line.
IdOrder(section) ==
    LET l == section.ssrcs
        heads == {i \in 1..Len(l) : \A j \in 1..(i - 1) : l[j].id # l[i].id}
    IN  [k \in 1..Cardinality(heads) |->
            l[CHOOSE i \in heads : Cardinality({j \in heads : j <= i}) = k].id]

IdSet(section) == {section.ssrcs[i].id : i \in 1..Len(section.ssrcs)}

SimGroupsOf(section) == SelectSeq(section.ssrcGroups, LAMBDA g : g.semantics = SIM)
FidGroupsOf(section) == SelectSeq(section.ssrcGroups, LAMBDA g : g.semantics = FID)

\* Members of the first SIM group of a section, <<>> when it has none.
SimMembers(section) ==
    IF Len(SimGroupsOf(section)) = 0 THEN <<>> ELSE SimGroupsOf(section)[1].ssrcs

IsLocalSendVideo(section) ==
    section.type = "video" /\ section.direction \in {"sendrecv", "sendonly"}

\* An unmunged section with one source.
IsSingleSource(section) ==
    Cardinality(IdSet(section)) = 1 /\ Len(SimGroupsOf(section)) = 0

\* An unmunged section with a source and its retransmission pair.
IsFidPair(section) ==
    /\ Cardinality(IdSet(section)) = 2
    /\ Len(FidGroupsOf(section)) > 0
    /\ Len(SimGroupsOf(section)) = 0

\* The height the caller supplied for the mid of section i, -1 when none.
SuppliedHeight(i) ==
    LET m == call.trackResolutionMap
    IN  IF m.supplied /\ In(i).mid \in DOMAIN m.heights THEN m.heights[In(i).mid] ELSE -1

\* Layers of the layer policy for the three heights of the spec.
PolicyLayers(h) == IF h = 720 THEN 3 ELSE IF h = 480 THEN 2 ELSE 1

\* Section i had no cache entry when the call started and the synthesizer
\* ran on it.
Synthesized(i) ==
    /\ ~call.threw
    /\ IsLocalSendVideo(In(i))
    /\ In(i).mid \notin DOMAIN call.ssrcCacheBefore
    /\ In(i).mid \in DOMAIN _ssrcCache

\* Section i is a local video section whose mid had a cache entry when the
\* call started.
HadEntry(i) ==
    /\ IsLocalSendVideo(In(i))
    /\ In(i).mid \in DOMAIN call.ssrcCacheBefore
    /\ In(i).mid \in DOMAIN first

-----------------------------------------------------------------------------
(* Claims. *)

\* C1 (as stated): a local video section with exactly one distinct SSRC and
\* no cache entry, munged with L layers from the layer policy (3 for 720, 2
\* for 480, 1 for 320), comes out with exactly L distinct SSRCs; for L > 1
\* with exactly one SIM group listing all L SSRCs, the original one first;
\* for L = 1 without SIM group.
C1_LayerCountShapesOutput ==
    \A i \in Processed :
        (/\ IsLocalSendVideo(In(i))
         /\ Cardinality(IdSet(In(i))) = 1
         /\ In(i).mid \notin DOMAIN call.ssrcCacheBefore
         /\ SuppliedHeight(i) \in {320, 480, 720})
        => LET L == PolicyLayers(SuppliedHeight(i))
           IN  /\ ~call.threw
               /\ Cardinality(IdSet(Out(i))) = L
               /\ L = 1 => Len(SimGroupsOf(Out(i))) = 0
               /\ L > 1 =>
                    /\ Len(SimGroupsOf(Out(i))) = 1
                    /\ Len(SimMembers(Out(i))) = L
                    /\ {SimMembers(Out(i))[k] : k \in 1..L} = IdSet(Out(i))
                    /\ SimMembers(Out(i))[1] = In(i).ssrcs[1].id

\* C2 (as stated): for the unmunged shapes that get munged (one source, or
\* two sources with a FID pair), a later call for a mid outputs the same
\* SSRCs in the same order as the first call for that mid, whatever height
\* the later call supplies.
C2_SameIdsOnLaterCall_AllShapes ==
    \A i \in Processed :
        (/\ HadEntry(i)
         /\ IsSingleSource(In(i)) \/ IsFidPair(In(i))
         /\ IsSingleSource(first[In(i).mid].input) \/ IsFidPair(first[In(i).mid].input))
        => /\ ~call.threw
           /\ IdOrder(Out(i)) = IdOrder(first[In(i).mid].output)

\* C2 (amended): for unmunged sections with exactly one source, a later call
\* for a mid outputs the same SSRCs in the same order as the first call for
\* that mid, whatever height the later call supplies.
C2_SameIdsOnLaterCall ==
    \A i \in Processed :
        (/\ HadEntry(i)
         /\ IsSingleSource(In(i))
         /\ IsSingleSource(first[In(i).mid].input))
        => /\ ~call.threw
           /\ IdOrder(Out(i)) = IdOrder(first[In(i).mid].output)

\* A later call with another height than the first one returned the three
\* SSRCs of the first call.
C2_Witness ==
    /\ call.made /\ ~call.threw /\ Len(call.decisions) = 1
    /\ HadEntry(1)
    /\ IsSingleSource(In(1)) /\ IsSingleSource(first[In(1).mid].input)
    /\ _layersCache[In(1).mid] = 3
    /\ SuppliedHeight(1) = 320
    /\ Len(IdOrder(Out(1))) = 3
    /\ IdOrder(Out(1)) = IdOrder(first[In(1).mid].output)

\* C3: for a single-source section, every later call for the mid that is
\* given the original unmunged section outputs the SIM group members of the
\* first output (no SIM group when the first output has none), whatever the
\* height of the later call.
C3_SameSimGroupOnLaterCalls ==
    \A i \in Processed :
        (/\ HadEntry(i)
         /\ IsSingleSource(In(i))
         /\ In(i) = first[In(i).mid].input)
        => /\ ~call.threw
           /\ SimMembers(Out(i)) = SimMembers(first[In(i).mid].output)
           /\ Len(SimGroupsOf(Out(i))) = Len(SimGroupsOf(first[In(i).mid].output))

\* A later call whose height asks for three layers returned the two-member
\* SIM group of the first call.
C3_Witness ==
    /\ call.made /\ ~call.threw /\ Len(call.decisions) = 1
    /\ HadEntry(1)
    /\ IsSingleSource(In(1)) /\ In(1) = first[In(1).mid].input
    /\ SuppliedHeight(1) = 720
    /\ Len(SimMembers(Out(1))) = 2
    /\ SimMembers(Out(1)) = SimMembers(first[In(1).mid].output)

\* C4: a cache entry (SSRC list and layer count), once it exists, is neither
\* changed nor removed by any later call.
C4_CacheEntryFixed ==
    [][\A m \in DOMAIN _ssrcCache :
          /\ m \in DOMAIN _ssrcCache' /\ _ssrcCache'[m] = _ssrcCache[m]
          /\ m \in DOMAIN _layersCache
          /\ m \in DOMAIN _layersCache' /\ _layersCache'[m] = _layersCache[m]]_vars

\* A later call with another shape and another height than the first one has
\* returned and the entry is the one of the first call.
C4_Witness ==
    /\ call.made /\ ~call.threw /\ Len(call.decisions) = 1
    /\ HadEntry(1)
    /\ IsFidPair(In(1)) /\ IsSingleSource(first[In(1).mid].input)
    /\ SuppliedHeight(1) = 720
    /\ _layersCache[In(1).mid] = 1
    /\ _ssrcCache[In(1).mid] = <<first[In(1).mid].input.ssrcs[1].id>>

\* C5 (as stated): a video section that already contains a SIM group is
\* returned unchanged, whatever its number of distinct SSRCs, and no cache
\* entry is created for its mid.
C5_SimSectionUnchanged ==
    \A i \in Processed :
        (In(i).type = "video" /\ Len(SimGroupsOf(In(i))) > 0)
        => /\ ~call.threw
           /\ Out(i) = In(i)
           /\ In(i).mid \in DOMAIN _ssrcCache => In(i).mid \in DOMAIN call.ssrcCacheBefore

\* What a new instance makes of a section when the caller supplies height
\* 720 for its mid and _generateSsrc() has the outcomes rnd.
FreshAt720(section, rnd) ==
    MungeMedia(section, [ssrcCache |-> <<>>, layersCache |-> <<>>],
               [supplied |-> TRUE, heights |-> (section.mid :> 720)], rnd).media

\* C6: without resolution map, or without an entry for the mid in it, a new
\* instance gives a section the number of SSRCs and the SIM group length
\* that it gives it for height 720.
C6_DefaultIsHeight720 ==
    \A i \in Processed :
        (Synthesized(i) /\ call.ssrcCacheBefore = <<>> /\ SuppliedHeight(i) = -1)
        => /\ Len(call.drawn[i]) = 2
           /\ Cardinality(IdSet(Out(i)))
                = Cardinality(IdSet(FreshAt720(In(i), call.drawn[i])))
           /\ Len(SimMembers(Out(i)))
                = Len(SimMembers(FreshAt720(In(i), call.drawn[i])))

\* A map without entry for the mid gave a single-source section three SSRCs
\* and a SIM group of three.
C6_Witness ==
    /\ call.made /\ Len(call.decisions) = 1
    /\ Synthesized(1) /\ call.ssrcCacheBefore = <<>>
    /\ call.trackResolutionMap.supplied /\ SuppliedHeight(1) = -1
    /\ IsSingleSource(In(1))
    /\ Cardinality(IdSet(Out(1))) = 3
    /\ Len(SimMembers(Out(1))) = 3

\* No cache entry was created for the mid of section i.
NoEntryCreated(i) ==
    /\ In(i).mid \in DOMAIN _ssrcCache => In(i).mid \in DOMAIN call.ssrcCacheBefore
    /\ In(i).mid \in DOMAIN _layersCache => In(i).mid \in DOMAIN call.layersCacheBefore

\* C7: a recvonly or inactive section, and any section that is not video,
\* comes out with its a=ssrc lines and groups unchanged, and no cache entry
\* is created for its mid.
C7_RemoteAndAudioUntouched ==
    \A i \in Processed :
        (In(i).direction \in {"recvonly", "inactive"} \/ In(i).type # "video")
        => /\ ~call.threw
           /\ Out(i) = In(i)
           /\ NoEntryCreated(i)

\* An inactive video section with one source, which a local sender's section
\* of that shape would not be, has come back unchanged and without entry.
C7_Witness ==
    /\ call.made /\ ~call.threw /\ Len(call.decisions) = 1
    /\ In(1).direction = "inactive" /\ In(1).type = "video"
    /\ Cardinality(IdSet(In(1))) = 1 /\ In(1).ssrcGroups = <<>>
    /\ "video" \notin DOMAIN _ssrcCache
    /\ Out(1) = In(1)

\* C8: a local video section with no SSRC, with more than two distinct
\* SSRCs, or with two distinct SSRCs and no group is left untouched and no
\* cache entry is created for its mid, also when the mid has a cache entry.
C8_UnsupportedShapesUntouched ==
    \A i \in Processed :
        (/\ IsLocalSendVideo(In(i))
         /\ LET n == Cardinality(IdSet(In(i)))
            IN  n = 0 \/ n > 2 \/ (n = 2 /\ Len(In(i).ssrcGroups) = 0))
        => /\ ~call.threw
           /\ Out(i) = In(i)
           /\ NoEntryCreated(i)
           /\ Cardinality(IdSet(In(i))) = 0 => Cardinality(IdSet(Out(i))) = 0

\* A section with two SSRCs and no group has come back unchanged from an
\* instance that holds a cache entry for its mid.
C8_Witness ==
    /\ call.made /\ ~call.threw /\ Len(call.decisions) = 1
    /\ IsLocalSendVideo(In(1))
    /\ Cardinality(IdSet(In(1))) = 2 /\ Len(In(1).ssrcGroups) = 0
    /\ In(1).mid \in DOMAIN call.ssrcCacheBefore
    /\ Out(1) = In(1)
    /\ _ssrcCache = call.ssrcCacheBefore

\* C9: no call throws: every call returns a description.
C9_NeverThrows ==
    call.made => /\ ~call.threw
                 /\ call.returnedInput \/ ~call.result.isNull
                 /\ ~call.returnedInput =>
                        Len(call.result.sdp.media) = Len(call.description.sdp.media)

\* A call on the cache fill path for a FID pair without msid attributes, on
\* an entry made from a section with a SIM group and no FID group, returned.
C9_Witness ==
    /\ call.made /\ ~call.threw /\ Len(call.decisions) = 1
    /\ HadEntry(1)
    /\ IsFidPair(In(1))
    /\ \A k \in 1..Len(In(1).ssrcs) : In(1).ssrcs[k].attribute # "msid"
    /\ Len(SimGroupsOf(first[In(1).mid].input)) = 1
    /\ Cardinality(IdSet(first[In(1).mid].input)) = 2
    /\ ~call.result.isNull

\* C10: a call whose description is absent or holds no text returns that
\* description itself and leaves the cache as it was.
C10_NoTextIsNoOp ==
    (/\ call.made
     /\ \/ call.description.isNull
        \/ call.description.sdp.text \in {"undefined", ""})
    => /\ ~call.threw
       /\ call.returnedInput
       /\ call.result = call.description
       /\ _ssrcCache = call.ssrcCacheBefore
       /\ _layersCache = call.layersCacheBefore

\* A description with an empty text came back from an instance that holds a
\* cache entry.
C10_Witness ==
    /\ call.made
    /\ ~call.description.isNull /\ call.description.sdp.text = ""
    /\ call.returnedInput
    /\ call.result = call.description
    /\ DOMAIN _ssrcCache # {}

\* The SIM group that the synthesizer appended to section i: the last group
\* of the output section.
GeneratedSimGroup(i) == Out(i).ssrcGroups[Len(Out(i).ssrcGroups)].ssrcs

\* C11 (as stated): every generated SSRC lies in [0, 2^32), here 0 .. max,
\* and the members of a generated SIM group (the primary and the generated
\* SSRCs) are pairwise distinct, for every outcome of the random source.
C11_GeneratedIdsDistinct ==
    \A i \in Processed :
        (Synthesized(i) /\ Len(call.drawn[i]) > 0)
        => /\ \A k \in 1..Len(call.drawn[i]) : call.drawn[i][k] \in 0..max
           /\ LET g == GeneratedSimGroup(i)
              IN  \A a, b \in 1..Len(g) : a # b => g[a] # g[b]

\* The section from which the cache entry of mid m was created.
EntryInput(m) == first[m].input

\* C12 (as stated): the first SSRC of every cache entry is the primary SSRC
\* of the section the entry was created from: the only SSRC of a section
\* with one SSRC, the first member of the FID group of a section with two.
C12_EntryStartsWithPrimary ==
    \A m \in DOMAIN _ssrcCache :
        /\ m \in DOMAIN first
        /\ Cardinality(IdSet(EntryInput(m))) = 1
            => _ssrcCache[m][1] = EntryInput(m).ssrcs[1].id
        /\ (Cardinality(IdSet(EntryInput(m))) = 2 /\ Len(FidGroupsOf(EntryInput(m))) > 0)
            => _ssrcCache[m][1] = FidGroupsOf(EntryInput(m))[1].ssrcs[1]

\* C13 (as stated): for every section the call munges, by generation or from
\* the cache, the output section holds a SIM group if and only if the layer
\* count stored for its mid is greater than 1.
C13_SimGroupIffSeveralLayers ==
    \A i \in Processed :
        (~call.threw /\ call.decisions[i] \in {"generate", "fill"})
        => /\ In(i).mid \in DOMAIN _layersCache
           /\ Len(SimGroupsOf(Out(i))) > 0 <=> _layersCache[In(i).mid] > 1

\* Positions of the msid lines of SSRC d in a sequence of a=ssrc lines.
MsidLinesOf(ssrcs, d) ==
    {k \in 1..Len(ssrcs) : ssrcs[k].attribute = "msid" /\ ssrcs[k].id = d}

\* The a=ssrc lines of output section i without the lines of the generated
\* SSRCs, which are the last ones: two for each generated SSRC.
LinesBeforeGenerated(i) ==
    SubSeq(Out(i).ssrcs, 1, Len(Out(i).ssrcs) - 2 * Len(call.drawn[i]))

\* C14 (as stated): when the synthesizer runs on a section without any msid
\* line, the output holds, before the lines of the generated SSRCs, exactly
\* one msid line with the section's msid as value for each distinct SSRC of
\* the input; and every SSRC of the output section, existing or generated,
\* has exactly one msid line.
C14_OneMsidForEachSource ==
    \A i \in Processed :
        (/\ Synthesized(i)
         /\ \A k \in 1..Len(In(i).ssrcs) : In(i).ssrcs[k].attribute # "msid")
        => /\ \A d \in IdSet(In(i)) :
                LET at == MsidLinesOf(LinesBeforeGenerated(i), d)
                IN  /\ Cardinality(at) = 1
                    /\ \A k \in at : LinesBeforeGenerated(i)[k].value = In(i).msid
           /\ \A d \in IdSet(Out(i)) :
                Cardinality(MsidLinesOf(Out(i).ssrcs, d)) = 1

\* C15: a local video section with exactly two distinct SSRCs and a FID
\* group, whose mid has no cache entry, is munged with the first member of
\* the FID group as primary: when SSRCs are generated, one SIM group is
\* appended that lists that member first and then the generated SSRCs in
\* the order of their generation; the groups of the input, the FID group
\* among them, and both SSRCs of the input remain in the output section.
C15_FidPrimaryLeadsSimGroup ==
    \A i \in Processed :
        (/\ IsLocalSendVideo(In(i))
         /\ Cardinality(IdSet(In(i))) = 2
         /\ Len(FidGroupsOf(In(i))) > 0
         /\ In(i).mid \notin DOMAIN call.ssrcCacheBefore)
        => LET n == Len(In(i).ssrcGroups)
               layers == IF SuppliedHeight(i) = -1 THEN 3
                         ELSE PolicyLayers(SuppliedHeight(i))
           IN  /\ ~call.threw
               /\ In(i).mid \in DOMAIN _ssrcCache
               /\ Len(call.drawn[i]) = layers - 1
               /\ Len(Out(i).ssrcGroups) = IF layers > 1 THEN n + 1 ELSE n
               /\ SubSeq(Out(i).ssrcGroups, 1, n) = In(i).ssrcGroups
               /\ IdSet(In(i)) \subseteq IdSet(Out(i))
               /\ layers > 1 =>
                    /\ Out(i).ssrcGroups[n + 1].semantics = "SIM"
                    /\ Out(i).ssrcGroups[n + 1].ssrcs
                         = <<FidGroupsOf(In(i))[1].ssrcs[1]>> \o call.drawn[i]

\* A section whose FID group names SSRC 2, the one of the second a=ssrc
\* line, as primary has come back with the FID group and a SIM group of 2
\* and two generated SSRCs that differ from each other.
C15_Witness ==
    /\ call.made /\ ~call.threw /\ Len(call.decisions) = 1
    /\ Synthesized(1)
    /\ In(1).ssrcGroups = <<FidGroupSecondFirst>>
    /\ In(1).ssrcs[1].id = 1
    /\ Len(call.drawn[1]) = 2
    /\ call.drawn[1][1] # call.drawn[1][2]
    /\ Len(Out(1).ssrcGroups) = 2
    /\ Out(1).ssrcGroups[1] = FidGroupSecondFirst
    /\ Out(1).ssrcGroups[2].ssrcs = <<2>> \o call.drawn[1]
    /\ {1, 2} \subseteq IdSet(Out(1))

\* The values of the attribute lines of SSRC d in a section.
AttributeValues(section, d, attributeName) ==
    {section.ssrcs[k].value :
        k \in {j \in 1..Len(section.ssrcs) :
                  section.ssrcs[j].id = d /\ section.ssrcs[j].attribute = attributeName}}

\* C17 (as stated): when a later call is given the unmunged section of the
\* first call for the mid, every cached SSRC has in its output the msid and
\* cname values it has in the output of the first call, also when the
\* section has no msid lines and the first call took the msid of the section.
C17_SameMsidAndCnameOnLaterCall ==
    \A i \in Processed :
        (/\ HadEntry(i)
         /\ Len(SimGroupsOf(In(i))) = 0
         /\ In(i) = first[In(i).mid].input)
        => /\ ~call.threw
           /\ \A k \in 1..Len(_ssrcCache[In(i).mid]) :
                LET d == _ssrcCache[In(i).mid][k]
                    out1 == first[In(i).mid].output
                IN  /\ AttributeValues(Out(i), d, "msid") = AttributeValues(out1, d, "msid")
                    /\ AttributeValues(Out(i), d, "cname") = AttributeValues(out1, d, "cname")

\* C18 (as stated): for every mid in the cache, the number of SSRCs stored
\* for it equals the layer count stored for it.
C18_EntryLengthIsLayerCount ==
    \A m \in DOMAIN _ssrcCache :
        /\ m \in DOMAIN _layersCache
        /\ Len(_ssrcCache[m]) = _layersCache[m]

\* An unmunged section of a local sender that the loop munges: one source,
\* or a source and its retransmission pair.
Qualifies(section) ==
    IsLocalSendVideo(section) /\ (IsSingleSource(section) \/ IsFidPair(section))

\* A section the loop skips: a remote direction, not video, no SSRC, more
\* than two SSRCs, or two SSRCs without group.
IsSkippedKind(section) ==
    \/ section.direction \in {"recvonly", "inactive"}
    \/ section.type # "video"
    \/ Cardinality(IdSet(section)) = 0
    \/ Cardinality(IdSet(section)) > 2
    \/ (Cardinality(IdSet(section)) = 2 /\ Len(section.ssrcGroups) = 0)

\* C16: in a description with several sections every section is processed
\* on its own, in order: a skipped section comes back as it was and does not
\* keep a qualifying section after it from being munged (its mid has a cache
\* entry after the call and the output section carries the cached SSRCs);
\* the entries of the mids the cache already had stay as they were, and an
\* entry is created only for the mid of a qualifying section of the call.
C16_SectionsIndependent ==
    (call.made /\ ~call.returnedInput)
    => /\ ~call.threw
       /\ Len(call.result.sdp.media) = Len(call.description.sdp.media)
       /\ \A i \in 1..Len(call.description.sdp.media) :
            /\ IsSkippedKind(In(i)) => Out(i) = In(i)
            /\ Qualifies(In(i)) =>
                 /\ In(i).mid \in DOMAIN _ssrcCache
                 /\ In(i).mid \in DOMAIN _layersCache
                 /\ \A k \in 1..Len(_ssrcCache[In(i).mid]) :
                        _ssrcCache[In(i).mid][k] \in IdSet(Out(i))
                 /\ _layersCache[In(i).mid] > 1 =>
                        SimMembers(Out(i)) = _ssrcCache[In(i).mid]
       /\ \A m \in DOMAIN call.ssrcCacheBefore :
            /\ m \in DOMAIN _ssrcCache /\ _ssrcCache[m] = call.ssrcCacheBefore[m]
            /\ m \in DOMAIN _layersCache /\ m \in DOMAIN call.layersCacheBefore
            /\ _layersCache[m] = call.layersCacheBefore[m]
       /\ \A m \in DOMAIN _ssrcCache \ DOMAIN call.ssrcCacheBefore :
            \E i \in 1..Len(call.description.sdp.media) :
                /\ In(i).mid = m
                /\ Qualifies(In(i))
                /\ _ssrcCache[m][1] \in IdSet(In(i))
                /\ \A k \in 1..Len(_ssrcCache[m]) : _ssrcCache[m][k] \in IdSet(Out(i))

\* A call with an audio section followed by a section of the second sender
\* has returned: the audio section is as it was, the second sender has got
\* its cache entry and two SSRCs, and the entry of the first sender, made by
\* an earlier call, is as it was.
C16_Witness ==
    /\ call.made /\ ~call.threw /\ Len(call.decisions) = 2
    /\ In(1).type = "audio" /\ Out(1) = In(1)
    /\ In(2).mid = "video2" /\ Qualifies(In(2))
    /\ "video2" \notin DOMAIN call.ssrcCacheBefore
    /\ "video" \in DOMAIN call.ssrcCacheBefore
    /\ DOMAIN _ssrcCache = {"video", "video2"}
    /\ _ssrcCache["video"] = call.ssrcCacheBefore["video"]
    /\ Len(_ssrcCache["video2"]) = 2
    /\ SimMembers(Out(2)) = _ssrcCache["video2"]
    /\ "audio" \notin DOMAIN _ssrcCache

\* C19: the cache of SSRCs and the cache of layer counts have the same mids
\* as keys; a new instance has none, no key is ever removed, and the keys
\* are exactly the mids of the sections on which a call of the instance has
\* run the synthesizer.
C19_CacheKeys ==
    /\ DOMAIN _ssrcCache = {} /\ DOMAIN _layersCache = {}
    /\ [](/\ DOMAIN _ssrcCache = DOMAIN _layersCache
          /\ DOMAIN _ssrcCache = DOMAIN first
          /\ \A i \in Processed :
                call.decisions[i] = "generate" => In(i).mid \in DOMAIN _ssrcCache)
    /\ [][/\ DOMAIN _ssrcCache \subseteq DOMAIN _ssrcCache'
          /\ DOMAIN _layersCache \subseteq DOMAIN _layersCache']_vars

\* A call with a section of a remote source and a section of the first
\* sender has returned from an instance that had an entry for the second
\* sender only: both senders are keys of both caches, the remote mid is not.
C19_Witness ==
    /\ call.made /\ ~call.threw /\ Len(call.decisions) = 2
    /\ In(1).mid = "remote" /\ In(2).mid = "video"
    /\ call.decisions[2] = "generate"
    /\ DOMAIN call.ssrcCacheBefore = {"video2"}
    /\ DOMAIN _ssrcCache = {"video", "video2"}
    /\ DOMAIN _layersCache = {"video", "video2"}

====
